---- MODULE Spec2Model ----
(***************************************************************************)
(* Model of src/src/program/shader.rs (glium): build_shader, Shader,       *)
(* Shader::get_id and Drop for Shader.                                     *)
(*                                                                         *)
(* Caller threads call build_shader against a context; each context has    *)
(* one owning thread that executes the closures handed to context.exec in  *)
(* submission order.  The owning threads of different contexts interleave  *)
(* around the compile block of a closure (lock, compile call, unlock) and  *)
(* contend for COMPILER_GLOBAL_LOCK.                                       *)
(***************************************************************************)
EXTENDS Integers, Sequences, FiniteSets, TLC

\* ------------------------------------------------------------------ bounds
MaxCalls == 2      \* number of build_shader calls issued in one behaviour

Call == 1..MaxCalls
Ctx  == {"A", "B"}

\* ------------------------------------------------------- context state
Versions    == {<<1, 5>>, <<2, 0>>, <<3, 3>>}
ShaderTypes == {"VERTEX_SHADER", "GEOMETRY_SHADER"}

\* Diagnostic logs the driver may write, as byte strings:
\* "" , "E:" and the single byte 0xFF, which is not UTF-8.
Logs == {<< >>, <<69, 58>>, <<255>>}

\* GlVersion(a, b) >= GlVersion(c, d): derived ordering of a pair.
GlVersionGE(v, w) == v[1] > w[1] \/ (v[1] = w[1] /\ v[2] >= w[2])

\* ------------------------------------------------------------- Handle
HandleId(n)     == [tag |-> "Id", v |-> n]
HandleHandle(n) == [tag |-> "Handle", v |-> n]
NoHandle        == [tag |-> "None", v |-> 0]

\* ------------------------------------------- Result<Handle, ProgramCreationError>
Ok(h)          == [ok |-> TRUE, id |-> h, err |-> "", msg |-> << >>]
Err(e, m)      == [ok |-> FALSE, id |-> NoHandle, err |-> e, msg |-> m]
NoOutcome      == [ok |-> FALSE, id |-> NoHandle, err |-> "none", msg |-> << >>]
ShaderTypeNotSupported == Err("ShaderTypeNotSupported", << >>)
CompilationError(m)    == Err("CompilationError", m)

\* String::from_utf8: the byte string is accepted iff it is well-formed UTF-8.
RECURSIVE ValidUtf8(_)
ValidUtf8(b) ==
  IF b = << >> THEN TRUE
  ELSE LET c == b[1]
           Cont(i) == i <= Len(b) /\ b[i] >= 128 /\ b[i] <= 191
           Rest(k) == SubSeq(b, k + 1, Len(b))
       IN  IF c < 128 THEN ValidUtf8(Rest(1))
           ELSE IF c >= 194 /\ c <= 223 THEN Cont(2) /\ ValidUtf8(Rest(2))
           ELSE IF c >= 224 /\ c <= 239
             THEN /\ Cont(2) /\ Cont(3)
                  /\ (c = 224 => b[2] >= 160)
                  /\ (c = 237 => b[2] <= 159)
                  /\ ValidUtf8(Rest(3))
           ELSE IF c >= 240 /\ c <= 244
             THEN /\ Cont(2) /\ Cont(3) /\ Cont(4)
                  /\ (c = 240 => b[2] >= 144)
                  /\ (c = 244 => b[2] <= 143)
                  /\ ValidUtf8(Rest(4))
           ELSE FALSE

VARIABLES
  ctxt,                  \* per context: version, opengl_es, gl_arb_shader_objects;
                         \* fixed, and the same for the contexts of one process
                         \* (they are created on the same driver)
  queue,                 \* per context: closures handed to exec, not yet run
  thread,                \* per context: the owning thread's position and locals
  COMPILER_GLOBAL_LOCK,  \* "free" or the context whose owning thread holds it
  caller,                \* per call: the calling thread's position and result
  chan,                  \* per call: the channel (tx, rx) of line 51
  shader,                \* per call: the Shader value build_shader returned
  drv,                   \* per context: the driver's live shader objects
  hist,                  \* per call: the object the driver created for it, the
                         \* status and log the driver recorded, the outcome sent
  trace,                 \* per call: what its build closure did, in order: "Run"
                         \* when the owning thread starts it, then the native
                         \* functions it called, "Lock", "Unlock" and "Send"
  dels,                  \* per call: handles submitted for deletion by its Shader
  deleted                \* per context: handles the delete call was executed on

vars == <<ctxt, queue, thread, COMPILER_GLOBAL_LOCK, caller, chan, shader,
          drv, hist, trace, dels, deleted>>

NoShader == [display |-> "none", id |-> NoHandle]

IdleThread == [pc |-> "idle", call |-> 0, id |-> NoHandle]

Init ==
  /\ \E caps \in [version : Versions, opengl_es : BOOLEAN,
                    gl_arb_shader_objects : BOOLEAN] :
       ctxt = [x \in Ctx |-> caps]
  /\ queue = [x \in Ctx |-> << >>]
  /\ thread = [x \in Ctx |-> IdleThread]
  /\ COMPILER_GLOBAL_LOCK = "free"
  /\ caller = [c \in Call |-> [pc |-> "start", ctx |-> "none",
                                shader_type |-> "none", result |-> NoOutcome]]
  /\ chan = [c \in Call |-> [buf |-> << >>, tx |-> FALSE, sends |-> 0]]
  /\ shader = [c \in Call |-> NoShader]
  /\ drv = [x \in Ctx |-> {}]
  /\ hist = [c \in Call |-> [created |-> NoHandle, status |-> -1,
                              log |-> << >>, sent |-> NoOutcome]]
  /\ trace = [c \in Call |-> << >>]
  /\ dels = [c \in Call |-> << >>]
  /\ deleted = [x \in Ctx |-> << >>]


\* ------------------------------------------------------- pure pieces
\* Mutant of StageUnsupported: the profile flag is not looked at the right
\* way round.
StageUnsupported_NotEs(shader_type, cx) ==
  shader_type = "GEOMETRY_SHADER" /\ ~cx.opengl_es

\* line 54: the stage is refused before any native call.
StageUnsupported(shader_type, cx) ==
  shader_type = "GEOMETRY_SHADER" /\ cx.opengl_es

\* Mutant of SelectHandle: the extension flag is tested first.
SelectHandle_LegacyFirst(cx, n) ==
  IF cx.gl_arb_shader_objects THEN HandleHandle(n)
  ELSE IF GlVersionGE(cx.version, <<2, 0>>) THEN HandleId(n)
  ELSE NoHandle

\* Mutant of SelectHandle: the last arm falls back to the ARB create call.
SelectHandle_LegacyDefault(cx, n) ==
  IF GlVersionGE(cx.version, <<2, 0>>) THEN HandleId(n)
  ELSE HandleHandle(n)

\* lines 59-65: the Handle built from the name n the create call returned;
\* NoHandle stands for reaching unreachable!().
SelectHandle(cx, n) ==
  IF GlVersionGE(cx.version, <<2, 0>>) THEN HandleId(n)
  ELSE IF cx.gl_arb_shader_objects THEN HandleHandle(n)
  ELSE NoHandle

\* Mutant of IsNull: only the Core sentinel is tested.
IsNull_IdOnly(id) == id = HandleId(0)

\* line 67: id == Handle::Id(0) || id == Handle::Handle(0)
IsNull(id) == id = HandleId(0) \/ id = HandleHandle(0)

\* the assert! in front of every native call that takes a Handle.
CapabilityAssert(cx, id) ==
  IF id.tag = "Id" THEN GlVersionGE(cx.version, <<2, 0>>)
  ELSE cx.gl_arb_shader_objects

\* The native function each step of the closure calls for a Handle: the Core
\* one for Handle::Id, the ARB one for Handle::Handle.
CoreCall ==
  [Create |-> "CreateShader", Source |-> "ShaderSource",
   Compile |-> "CompileShader", Status |-> "GetShaderiv(COMPILE_STATUS)",
   LogLen |-> "GetShaderiv(INFO_LOG_LENGTH)", Log |-> "GetShaderInfoLog"]
ArbCall ==
  [Create |-> "CreateShaderObjectARB", Source |-> "ShaderSourceARB",
   Compile |-> "CompileShaderARB",
   Status |-> "GetObjectParameterivARB(OBJECT_COMPILE_STATUS_ARB)",
   LogLen |-> "GetObjectParameterivARB(OBJECT_INFO_LOG_LENGTH_ARB)",
   Log |-> "GetInfoLogARB"]

\* Mutant of GlCall: the compile step always calls the Core function.
GlCall_CompileCore(id, step) ==
  IF id.tag = "Id" \/ step = "Compile" THEN CoreCall[step] ELSE ArbCall[step]

\* match id { Handle::Id(id) => <Core call>, Handle::Handle(id) => <ARB call> }
GlCall(id, step) ==
  IF id.tag = "Id" THEN CoreCall[step] ELSE ArbCall[step]

\* GetShaderiv(INFO_LOG_LENGTH) / GetObjectParameterivARB(OBJECT_INFO_LOG_LENGTH_ARB):
\* the length of the log including its NUL terminator, 0 when there is no log.
InfoLogLength(log) == IF log = << >> THEN 0 ELSE Len(log) + 1

\* GetShaderInfoLog / GetInfoLogARB with a buffer of bufSize bytes: the bytes
\* written (NUL terminator included) and the length reported (NUL excluded).
InfoLogWritten(log, bufSize) ==
  IF bufSize <= 0 THEN << >>
  ELSE LET n == IF Len(log) < bufSize - 1 THEN Len(log) ELSE bufSize - 1
       IN  Append(SubSeq(log, 1, n), 0)
InfoLogReported(log, bufSize) ==
  IF bufSize <= 0 THEN 0
  ELSE IF Len(log) < bufSize - 1 THEN Len(log) ELSE bufSize - 1

\* Mutant of SetLen: the length is left at the buffer size asked for, NUL
\* terminator included.
SetLen_BufferSize(buffer, error_log_size) == buffer

\* lines 149-151: error_log.set_len(error_log_size) on the buffer the driver
\* filled, error_log_size being the length the driver reported.
SetLen(buffer, error_log_size) == SubSeq(buffer, 1, error_log_size)

\* Mutant of CompilationFailed: the log is fetched whatever the status.
CompilationFailed_Always(compilation_success) == TRUE

\* Mutant of CompilationFailed: the test is inverted.
CompilationFailed_Inverted(compilation_success) == compilation_success # 0

\* line 116: if compilation_success == 0
CompilationFailed(compilation_success) == compilation_success = 0

\* Mutant of MapToShader: the Shader keeps the raw name as a Handle::Handle.
MapToShader_AsHandle(display, outcome) ==
  IF outcome.ok THEN [display |-> display, id |-> HandleHandle(outcome.id.v)]
  ELSE NoShader

\* lines 160-165: rx.recv().unwrap().map(|id| Shader { display, id }).
MapToShader(display, outcome) ==
  IF outcome.ok THEN [display |-> display, id |-> outcome.id] ELSE NoShader

\* Mutant of get_id: the raw name is handed out as a Core identifier.
get_id_AsId(s) == HandleId(s.id.v)

\* lines 20-22
get_id(s) == s.id

\* ------------------------------------------------------- channel, exec
\* tx.send(o): the value is buffered for rx; the count is bookkeeping.
TxSend(ch, o) == [ch EXCEPT !.buf = Append(@, o), !.sends = @ + 1]
\* tx goes out of scope (the closure returned, unwound, or was discarded).
TxDrop(ch) == [ch EXCEPT !.tx = FALSE]

BuildWork(c)   == [kind |-> "build", call |-> c, id |-> NoHandle]
DropWork(c, h) == [kind |-> "drop", call |-> c, id |-> h]

\* context.exec(closure): the closure joins the owning thread's queue.
Exec(x, w) == queue' = [queue EXCEPT ![x] = Append(@, w)]

At(x, pc) == thread[x].pc = pc
Goto(x, pc) == thread' = [thread EXCEPT ![x].pc = pc]
Log(c, e) == trace' = [trace EXCEPT ![c] = Append(@, e)]

\* ------------------------------------------------------- calling threads
\* lines 46-52: build_shader creates the channel and submits the closure.
build_shader(c, x, shader_type) ==
  /\ caller[c].pc = "start"
  /\ \A b \in Call : b < c => caller[b].pc # "start"   \* calls are numbered as issued
  /\ caller' = [caller EXCEPT ![c] = [pc |-> "recv", ctx |-> x,
                                      shader_type |-> shader_type,
                                      result |-> NoOutcome]]
  /\ chan' = [chan EXCEPT ![c].tx = TRUE]
  /\ Exec(x, BuildWork(c))
  /\ UNCHANGED <<ctxt, thread, COMPILER_GLOBAL_LOCK, shader, drv, hist,
                 trace, dels, deleted>>

\* Mutant of RxRecv: try_recv() in place of recv(), the caller goes on with
\* whatever the channel holds at that moment.
RxRecv_TryRecv(c) ==
  /\ caller[c].pc = "recv"
  /\ LET o == IF chan[c].buf # << >> THEN Head(chan[c].buf)
              ELSE ShaderTypeNotSupported
     IN  /\ caller' = [caller EXCEPT ![c].pc = IF o.ok THEN "live" ELSE "err",
                                     ![c].result = o]
         /\ shader' = [shader EXCEPT ![c] = MapToShader(caller[c].ctx, o)]
  /\ chan' = [chan EXCEPT ![c].buf = IF @ # << >> THEN Tail(@) ELSE @]
  /\ UNCHANGED <<ctxt, queue, thread, COMPILER_GLOBAL_LOCK, drv, hist,
                 trace, dels, deleted>>

\* line 160: rx.recv() yields the buffered value.
RxRecv(c) ==
  /\ caller[c].pc = "recv"
  /\ chan[c].buf # << >>
  /\ LET o == Head(chan[c].buf)
     IN  /\ caller' = [caller EXCEPT ![c].pc = IF o.ok THEN "live" ELSE "err",
                                     ![c].result = o]
         /\ shader' = [shader EXCEPT ![c] = MapToShader(caller[c].ctx, o)]
  /\ chan' = [chan EXCEPT ![c].buf = Tail(@)]
  /\ UNCHANGED <<ctxt, queue, thread, COMPILER_GLOBAL_LOCK, drv, hist,
                 trace, dels, deleted>>

\* Mutant of RxRecvDisconnected: the caller gives up waiting although tx is
\* still alive.
RxRecvDisconnected_GiveUp(c) ==
  /\ caller[c].pc = "recv"
  /\ chan[c].buf = << >>
  /\ caller' = [caller EXCEPT ![c].pc = "panicked"]
  /\ UNCHANGED <<ctxt, queue, thread, COMPILER_GLOBAL_LOCK, chan, shader,
                 drv, hist, trace, dels, deleted>>

\* line 160: rx.recv() is Err once tx is gone and nothing is buffered;
\* unwrap() then panics in the calling thread.
RxRecvDisconnected(c) ==
  /\ caller[c].pc = "recv"
  /\ chan[c].buf = << >>
  /\ ~chan[c].tx
  /\ caller' = [caller EXCEPT ![c].pc = "panicked"]
  /\ UNCHANGED <<ctxt, queue, thread, COMPILER_GLOBAL_LOCK, chan, shader,
                 drv, hist, trace, dels, deleted>>

\* Mutant of drop: the Shader was copied, and the copy is dropped as well.
drop_Copied(c) ==
  /\ caller[c].pc = "live"
  /\ LET id == shader[c].id
     IN  /\ Exec(shader[c].display, DropWork(c, id))
         /\ dels' = [dels EXCEPT ![c] = Append(@, id)]
  /\ IF dels[c] = << >>
     THEN UNCHANGED <<caller, shader>>
     ELSE /\ caller' = [caller EXCEPT ![c].pc = "dropped"]
          /\ shader' = [shader EXCEPT ![c] = NoShader]
  /\ UNCHANGED <<ctxt, thread, COMPILER_GLOBAL_LOCK, chan, drv, hist,
                 trace, deleted>>

\* Mutant of drop: the deletion closure is submitted twice.
drop_Twice(c) ==
  /\ caller[c].pc = "live"
  /\ LET id == shader[c].id
     IN  /\ queue' = [queue EXCEPT ![shader[c].display] =
                        @ \o <<DropWork(c, id), DropWork(c, id)>>]
         /\ dels' = [dels EXCEPT ![c] = @ \o <<id, id>>]
  /\ caller' = [caller EXCEPT ![c].pc = "dropped"]
  /\ shader' = [shader EXCEPT ![c] = NoShader]
  /\ UNCHANGED <<ctxt, thread, COMPILER_GLOBAL_LOCK, chan, drv, hist,
                 trace, deleted>>

\* lines 25-42: the Shader goes out of scope; drop submits the deletion
\* closure and returns.
drop(c) ==
  /\ caller[c].pc = "live"
  /\ LET id == shader[c].id
     IN  /\ Exec(shader[c].display, DropWork(c, id))
         /\ dels' = [dels EXCEPT ![c] = Append(@, id)]
  /\ caller' = [caller EXCEPT ![c].pc = "dropped"]
  /\ shader' = [shader EXCEPT ![c] = NoShader]
  /\ UNCHANGED <<ctxt, thread, COMPILER_GLOBAL_LOCK, chan, drv, hist,
                 trace, deleted>>


\* ------------------------------------------------------- owning threads
\* The steps of an owning thread are cut where a closure meets state shared
\* with another thread (its queue, COMPILER_GLOBAL_LOCK, the compile call);
\* the native calls made inside one step are recorded in order in trace.

\* A panic inside a closure unwinds the owning thread: the closure's tx is
\* dropped unsent, a held lock guard is released, the thread is gone.
Panic(x, c) ==
  /\ thread' = [thread EXCEPT ![x] = [IdleThread EXCEPT !.pc = "dead"]]
  /\ chan' = [chan EXCEPT ![c] = TxDrop(@)]
  /\ COMPILER_GLOBAL_LOCK' =
       IF COMPILER_GLOBAL_LOCK = x THEN "free" ELSE COMPILER_GLOBAL_LOCK

\* Mutant of SendAndReturn: all closures share the channel of the next call.
SendAndReturn_Crossed(x, c, o) ==
  /\ chan' = [d \in Call |->
                IF d = (c % MaxCalls) + 1 THEN TxSend(chan[d], o)
                ELSE IF d = c THEN TxDrop(chan[d]) ELSE chan[d]]
  /\ thread' = [thread EXCEPT ![x] = IdleThread]
  /\ UNCHANGED COMPILER_GLOBAL_LOCK

\* Mutant of SendAndReturn: the closure returns without having sent.
SendAndReturn_NoSend(x, c, o) ==
  /\ chan' = [chan EXCEPT ![c] = TxDrop(@)]
  /\ thread' = [thread EXCEPT ![x] = IdleThread]
  /\ UNCHANGED COMPILER_GLOBAL_LOCK

\* tx.send(o) followed by the closure's return, which drops tx.
SendAndReturn(x, c, o) ==
  /\ chan' = [chan EXCEPT ![c] = TxDrop(TxSend(@, o))]
  /\ thread' = [thread EXCEPT ![x] = IdleThread]
  /\ UNCHANGED COMPILER_GLOBAL_LOCK

\* The names the driver of context x may return from a create call:
\* 0 (refusal) or a name not in use.  The closure looks at a name only to
\* compare it with 0, so the driver is taken to hand out the lowest unused
\* one; at most MaxCalls objects exist, so one is always free.
DriverNames(x) ==
  LET free == {n \in 1..MaxCalls : SelectHandle(ctxt[x], n) \notin drv[x]}
  IN  {0} \cup {n \in free : \A k \in free : n <= k}

\* lines 52-81: the owning thread runs the next closure, a build closure, up
\* to the point where it asks for COMPILER_GLOBAL_LOCK: stage test, create
\* call, null test, source upload.
RunBuild(x) ==
  /\ At(x, "idle")
  /\ queue[x] # << >>
  /\ Head(queue[x]).kind = "build"
  /\ queue' = [queue EXCEPT ![x] = Tail(@)]
  /\ LET c == Head(queue[x]).call
     IN  IF StageUnsupported(caller[c].shader_type, ctxt[x])
         THEN \* lines 55-56
              /\ SendAndReturn(x, c, ShaderTypeNotSupported)
              /\ hist' = [hist EXCEPT ![c].sent = ShaderTypeNotSupported]
              /\ trace' = [trace EXCEPT ![c] = @ \o <<"Run", "Send">>]
              /\ UNCHANGED drv
         ELSE IF SelectHandle(ctxt[x], 0) = NoHandle
         THEN \* line 64
              /\ Panic(x, c)
              /\ Log(c, "Run")
              /\ UNCHANGED <<drv, hist>>
         ELSE \E n \in DriverNames(x) :
                LET id == SelectHandle(ctxt[x], n)
                IN  /\ drv' = [drv EXCEPT ![x] = IF n = 0 THEN @ ELSE @ \cup {id}]
                    /\ IF IsNull(id)
                       THEN \* lines 68-69
                            /\ SendAndReturn(x, c, ShaderTypeNotSupported)
                            /\ hist' = [hist EXCEPT
                                 ![c].created = id,
                                 ![c].sent = ShaderTypeNotSupported]
                            /\ trace' = [trace EXCEPT
                                 ![c] = @ \o <<"Run", GlCall(id, "Create"), "Send">>]
                       ELSE IF CapabilityAssert(ctxt[x], id)
                       THEN \* lines 72-81
                            /\ thread' = [thread EXCEPT ![x] =
                                 [pc |-> "lock", call |-> c, id |-> id]]
                            /\ hist' = [hist EXCEPT ![c].created = id]
                            /\ trace' = [trace EXCEPT
                                 ![c] = @ \o <<"Run", GlCall(id, "Create"),
                                            GlCall(id, "Source")>>]
                            /\ UNCHANGED <<chan, COMPILER_GLOBAL_LOCK>>
                       ELSE /\ Panic(x, c)
                            /\ hist' = [hist EXCEPT ![c].created = id]
                            /\ trace' = [trace EXCEPT
                                 ![c] = @ \o <<"Run", GlCall(id, "Create")>>]
  /\ UNCHANGED <<ctxt, caller, shader, dels, deleted>>

\* Mutant of LockAcquire: the closure goes on to compile without waiting for
\* the mutex to be free.
LockAcquire_NoWait(x) ==
  /\ At(x, "lock")
  /\ COMPILER_GLOBAL_LOCK' = x
  /\ Log(thread[x].call, "Lock")
  /\ Goto(x, "compile")
  /\ UNCHANGED <<ctxt, queue, caller, chan, shader, drv, hist, dels,
                 deleted>>

\* line 85: COMPILER_GLOBAL_LOCK.lock() blocks until the mutex is free.
LockAcquire(x) ==
  /\ At(x, "lock")
  /\ COMPILER_GLOBAL_LOCK = "free"
  /\ COMPILER_GLOBAL_LOCK' = x
  /\ Log(thread[x].call, "Lock")
  /\ Goto(x, "compile")
  /\ UNCHANGED <<ctxt, queue, caller, chan, shader, drv, hist, dels,
                 deleted>>

\* lines 87-96: the owning thread enters CompileShader / CompileShaderARB.
CompileShader(x) ==
  /\ At(x, "compile")
  /\ IF CapabilityAssert(ctxt[x], thread[x].id)
     THEN /\ Log(thread[x].call, GlCall(thread[x].id, "Compile"))
          /\ Goto(x, "compiling")
          /\ UNCHANGED <<chan, COMPILER_GLOBAL_LOCK>>
     ELSE Panic(x, thread[x].call) /\ UNCHANGED trace
  /\ UNCHANGED <<ctxt, queue, caller, shader, drv, hist, dels, deleted>>

\* lines 90/94: the compile call returns; the driver has recorded the
\* object's compile status and its diagnostic log.
CompileReturns(x) ==
  /\ At(x, "compiling")
  /\ \E st \in {0, 1} :
       \E log \in (IF st = 0 THEN Logs ELSE {<< >>}) :
         hist' = [hist EXCEPT ![thread[x].call].status = st,
                              ![thread[x].call].log = log]
  /\ Goto(x, "unlock")
  /\ UNCHANGED <<ctxt, queue, COMPILER_GLOBAL_LOCK, caller, chan, shader,
                 drv, trace, dels, deleted>>

\* Mutant of LockRelease: the guard lives on to the end of the closure.
LockRelease_Keep(x) ==
  /\ At(x, "unlock")
  /\ Goto(x, "status")
  /\ UNCHANGED <<ctxt, queue, COMPILER_GLOBAL_LOCK, caller, chan, shader,
                 drv, hist, trace, dels, deleted>>

\* line 97: _lock goes out of scope at the end of the block.
LockRelease(x) ==
  /\ At(x, "unlock")
  /\ COMPILER_GLOBAL_LOCK' =
       IF COMPILER_GLOBAL_LOCK = x THEN "free" ELSE COMPILER_GLOBAL_LOCK
  /\ Log(thread[x].call, "Unlock")
  /\ Goto(x, "status")
  /\ UNCHANGED <<ctxt, queue, caller, chan, shader, drv, hist, dels,
                 deleted>>

\* lines 100-157: status query; on failure log-length query, log retrieval,
\* UTF-8 decoding and the error send; on success the Ok send.
CheckCompilation(x) ==
  /\ At(x, "status")
  /\ LET c   == thread[x].call
         id  == thread[x].id
         compilation_success == hist[c].status
         size   == InfoLogLength(hist[c].log)
         buffer == InfoLogWritten(hist[c].log, size)
         error_log_size == InfoLogReported(hist[c].log, size)
         error_log == SetLen(buffer, error_log_size)
     IN  IF ~CapabilityAssert(ctxt[x], id)
         THEN Panic(x, c) /\ UNCHANGED <<hist, trace>>
         ELSE IF CompilationFailed(compilation_success)
         THEN IF ValidUtf8(error_log)
              THEN /\ SendAndReturn(x, c, CompilationError(error_log))
                   /\ hist' = [hist EXCEPT
                        ![c].sent = CompilationError(error_log)]
                   /\ trace' = [trace EXCEPT
                        ![c] = @ \o <<GlCall(id, "Status"), GlCall(id, "LogLen"),
                                      GlCall(id, "Log"), "Send">>]
              ELSE /\ Panic(x, c)
                   /\ trace' = [trace EXCEPT
                        ![c] = @ \o <<GlCall(id, "Status"), GlCall(id, "LogLen"),
                                      GlCall(id, "Log")>>]
                   /\ UNCHANGED hist
         ELSE /\ SendAndReturn(x, c, Ok(id))
              /\ hist' = [hist EXCEPT ![c].sent = Ok(id)]
              /\ trace' = [trace EXCEPT
                   ![c] = @ \o <<GlCall(id, "Status"), "Send">>]
  /\ UNCHANGED <<ctxt, queue, caller, shader, drv, dels, deleted>>

\* Mutant of RunDrop: the deletion closure is taken off the queue and returns
\* without calling the delete function.
RunDrop_Skip(x) ==
  /\ At(x, "idle")
  /\ queue[x] # << >>
  /\ Head(queue[x]).kind = "drop"
  /\ queue' = [queue EXCEPT ![x] = Tail(@)]
  /\ UNCHANGED <<ctxt, thread, COMPILER_GLOBAL_LOCK, caller, chan, shader,
                 drv, hist, trace, dels, deleted>>

\* lines 28-41: the owning thread runs the next closure, the deletion
\* closure of drop: DeleteShader / DeleteObjectARB.
RunDrop(x) ==
  /\ At(x, "idle")
  /\ queue[x] # << >>
  /\ Head(queue[x]).kind = "drop"
  /\ queue' = [queue EXCEPT ![x] = Tail(@)]
  /\ LET id == Head(queue[x]).id
     IN  IF CapabilityAssert(ctxt[x], id)
         THEN /\ drv' = [drv EXCEPT ![x] = @ \ {id}]
              /\ deleted' = [deleted EXCEPT ![x] = Append(@, id)]
              /\ UNCHANGED <<thread, COMPILER_GLOBAL_LOCK>>
         ELSE /\ thread' = [thread EXCEPT ![x] = [IdleThread EXCEPT !.pc = "dead"]]
              /\ UNCHANGED <<drv, deleted, COMPILER_GLOBAL_LOCK>>
  /\ UNCHANGED <<ctxt, caller, chan, shader, hist, trace, dels>>

\* The owning thread is gone: a closure still queued is never run; when the
\* queue is torn down the closure is dropped, and its tx with it.
DiscardQueued(x) ==
  /\ At(x, "dead")
  /\ queue[x] # << >>
  /\ LET w == Head(queue[x])
     IN  chan' = IF w.kind = "build"
                 THEN [chan EXCEPT ![w.call] = TxDrop(@)] ELSE chan
  /\ queue' = [queue EXCEPT ![x] = Tail(@)]
  /\ UNCHANGED <<ctxt, thread, COMPILER_GLOBAL_LOCK, caller, shader, drv,
                 hist, trace, dels, deleted>>

Next ==
  \/ \E c \in Call, x \in Ctx, st \in ShaderTypes : build_shader(c, x, st)
  \/ \E c \in Call : RxRecv(c)
  \/ \E c \in Call : RxRecvDisconnected(c)
  \/ \E c \in Call : drop(c)
  \/ \E x \in Ctx : RunBuild(x)
  \/ \E x \in Ctx : LockAcquire(x)
  \/ \E x \in Ctx : CompileShader(x)
  \/ \E x \in Ctx : CompileReturns(x)
  \/ \E x \in Ctx : LockRelease(x)
  \/ \E x \in Ctx : CheckCompilation(x)
  \/ \E x \in Ctx : RunDrop(x)
  \/ \E x \in Ctx : DiscardQueued(x)

Spec == Init /\ [][Next]_vars

\* An owning thread that is alive keeps running: it takes the next closure
\* of its queue and each step of the closure it is in (a lock() call returns
\* once the mutex is free, the driver's compile call returns); a caller
\* blocked in rx.recv() is woken once there is a value or tx is gone.
\* Nothing obliges a caller to drop its Shader, nor the queue of a dead
\* owning thread to be torn down.
Fairness ==
  /\ \A x \in Ctx :
       /\ WF_vars(RunBuild(x))
       /\ WF_vars(LockAcquire(x))
       /\ WF_vars(CompileShader(x))
       /\ WF_vars(CompileReturns(x))
       /\ WF_vars(LockRelease(x))
       /\ WF_vars(CheckCompilation(x))
       /\ WF_vars(RunDrop(x))
  /\ \A c \in Call :
       /\ WF_vars(RxRecv(c))
       /\ WF_vars(RxRecvDisconnected(c))

FairSpec == Init /\ [][Next]_vars /\ Fairness


\* ===================================================================
\* Properties
\* ===================================================================
CoreUsable(cx)   == GlVersionGE(cx.version, <<2, 0>>)
LegacyUsable(cx) == cx.gl_arb_shader_objects

Started(c)  == caller[c].pc # "start"
\* the build closure of call c was run by the owning thread and is over
Finished(c) == Started(c) /\ ~chan[c].tx /\ trace[c] # << >>
\* the caller got a value back from build_shader
Returned(c) == caller[c].pc \in {"live", "err", "dropped"}
InCompile(x) == thread[x].pc = "compiling"
\* the events of a trace, as a set
Events(t) == {t[i] : i \in DOMAIN t}
NativeCalls == {"Create", "Source", "Compile", "Status", "LogLen", "Log"}
\* the step a trace event belongs to, whichever path's function was called
Kind(e) ==
  IF \E k \in NativeCalls : e \in {CoreCall[k], ArbCall[k]}
  THEN CHOOSE k \in NativeCalls : e \in {CoreCall[k], ArbCall[k]}
  ELSE e
Kinds(t) == [i \in DOMAIN t |-> Kind(t[i])]

\* C1: at most one owning thread is inside its compile call (CompileShader /
\* CompileShaderARB) at any instant, and the thread inside it holds
\* COMPILER_GLOBAL_LOCK.
C1_CompilationSerialized ==
  /\ Cardinality({x \in Ctx : InCompile(x)}) <= 1
  /\ \A x \in Ctx : InCompile(x) => COMPILER_GLOBAL_LOCK = x

\* C1 witness: one creation is inside its compile call while another
\* creation, on another owning thread, is waiting for the lock.
C1_Witness ==
  \E x, y \in Ctx : x # y /\ InCompile(x) /\ At(y, "lock")

\* the build closure of call c panics before sending: no usable capability
\* path (line 64), or a failed compilation whose log is not UTF-8 (line 151)
Aborts(c) ==
  LET cx == ctxt[caller[c].ctx]
  IN  \/ /\ ~StageUnsupported(caller[c].shader_type, cx)
         /\ ~CoreUsable(cx) /\ ~LegacyUsable(cx)
      \/ hist[c].status = 0 /\ ~ValidUtf8(hist[c].log)

\* C2 as stated: every build closure that was run and is over has sent
\* exactly one outcome, whatever the stage, the capabilities and the
\* driver's answers.
C2_ExactlyOnce_AsStated ==
  \A c \in Call : Finished(c) => chan[c].sends = 1

\* C2 amended: no closure ever sends twice; a closure that was run and is
\* over has sent exactly one outcome unless it panicked (no usable capability
\* path, or a compile log that is not UTF-8), and then it has sent none.
C2_ExactlyOnceUnlessPanic ==
  \A c \in Call :
    /\ chan[c].sends <= 1
    /\ chan[c].sends = 1 => hist[c].sent # NoOutcome
    /\ Finished(c) => chan[c].sends = (IF Aborts(c) THEN 0 ELSE 1)

\* C2 witness: one closure is over having sent once, another is over having
\* panicked without sending.
C2_Witness ==
  \E c, d \in Call :
    /\ Finished(c) /\ ~Aborts(c) /\ chan[c].sends = 1
    /\ Finished(d) /\ Aborts(d) /\ chan[d].sends = 0

\* what a caller that returned holds is the outcome its closure sent
Verbatim(c) ==
  /\ caller[c].result = hist[c].sent
  /\ caller[c].pc = "live" =>
       hist[c].sent.ok /\ shader[c] = [display |-> caller[c].ctx,
                                       id |-> hist[c].sent.id]
  /\ caller[c].pc = "dropped" => hist[c].sent.ok
  /\ caller[c].pc = "err" => ~hist[c].sent.ok /\ shader[c] = NoShader

\* C3 as stated: a caller that is no longer waiting was released by the one
\* send of its closure, and holds the sent outcome unchanged.
C3_ReleasedOnlyBySend_AsStated ==
  \A c \in Call :
    caller[c].pc \notin {"start", "recv"} => chan[c].sends = 1 /\ Verbatim(c)

\* C3 amended: a caller that returned was released by the one send of its
\* closure and holds the sent outcome unchanged; the only other way its wait
\* ends is the channel's disconnection (tx dropped without a send), and then
\* the call panics and returns nothing.
C3_ReturnOnlyAfterSend ==
  \A c \in Call :
    /\ Returned(c) => chan[c].sends = 1 /\ Verbatim(c)
    /\ caller[c].pc = "panicked" =>
         chan[c].sends = 0 /\ ~chan[c].tx /\ shader[c] = NoShader
    /\ caller[c].pc \in {"start", "recv"} => shader[c] = NoShader

\* C3 witness: a caller has returned the Shader its closure sent, and
\* another caller's wait has ended in a panic.
C3_Witness ==
  \E c, d \in Call :
    /\ caller[c].pc = "live" /\ chan[c].sends = 1
    /\ caller[d].pc = "panicked"


\* the deletion closures of call c's Shader still queued on context x
QueuedDrops(c, x) ==
  {i \in DOMAIN queue[x] : queue[x][i].kind = "drop" /\ queue[x][i].call = c}

\* C4: dropping a Shader submits exactly one deletion closure, to the
\* Shader's context, carrying the Handle the Shader held; no Shader ever has
\* more than one deletion submitted; the drop is never blocked and is over
\* as soon as it has submitted, whether or not the deletion has been executed.
C4_DeferredDeletion ==
  \A c \in Call :
    /\ Len(dels[c]) = (IF caller[c].pc = "dropped" THEN 1 ELSE 0)
    /\ caller[c].pc = "dropped" =>
         /\ dels[c] = <<hist[c].sent.id>>
         /\ hist[c].sent.ok
         /\ \A x \in Ctx : \A i \in QueuedDrops(c, x) :
              x = caller[c].ctx /\ queue[x][i].id = hist[c].sent.id
    /\ \A x \in Ctx : Cardinality(QueuedDrops(c, x)) <= Len(dels[c])
    /\ caller[c].pc = "live" => ENABLED drop(c)

\* C4 witness: a Shader has been dropped, its caller has gone on, and the
\* deletion closure is still waiting in the queue behind a running closure.
C4_Witness ==
  \E c \in Call :
    /\ caller[c].pc = "dropped"
    /\ QueuedDrops(c, caller[c].ctx) # {}
    /\ ~At(caller[c].ctx, "idle")

\* C5 as stated: whenever a creation has produced a Handle, exactly one of
\* {Core usable, LegacyExtension usable} is true of its context, and the
\* Handle's variant is the one of that path.
C5_ExactlyOnePath_AsStated ==
  \A c \in Call :
    hist[c].created # NoHandle =>
      LET cx == ctxt[caller[c].ctx]
      IN  /\ CoreUsable(cx) # LegacyUsable(cx)
          /\ hist[c].created.tag = (IF CoreUsable(cx) THEN "Id" ELSE "Handle")

\* C5 amended: whenever a creation has produced a Handle, at least one of
\* the two paths is usable on its context (both may be), and the Handle's
\* variant is Handle::Id exactly when the Core path is usable and
\* Handle::Handle exactly when only the LegacyExtension path is.
C5_VariantMatchesSelectedPath ==
  \A c \in Call :
    hist[c].created # NoHandle =>
      LET cx == ctxt[caller[c].ctx]
      IN  /\ CoreUsable(cx) \/ LegacyUsable(cx)
          /\ hist[c].created.tag = "Id" <=> CoreUsable(cx)
          /\ hist[c].created.tag = "Handle" <=>
               (~CoreUsable(cx) /\ LegacyUsable(cx))

\* C5 witness: a Handle::Id was created on a context on which both paths
\* are usable.
C5_Witness ==
  \E c \in Call :
    /\ hist[c].created.tag = "Id"
    /\ CoreUsable(ctxt[caller[c].ctx]) /\ LegacyUsable(ctxt[caller[c].ctx])

\* the request of call c is a geometry shader on an ES context
GeometryOnEs(c) ==
  /\ Started(c)
  /\ caller[c].shader_type = "GEOMETRY_SHADER"
  /\ ctxt[caller[c].ctx].opengl_es

\* C6: a geometry shader asked of an ES context: its closure makes no native
\* call and never takes the compile lock, the outcome it sends is
\* Err(ShaderTypeNotSupported), and that is what the caller returns.
C6_GeometryRejected ==
  \A c \in Call :
    GeometryOnEs(c) =>
      /\ Events(trace[c]) \subseteq {"Run", "Send"}
      /\ hist[c].created = NoHandle
      /\ \A x \in Ctx : thread[x].call # c
      /\ Finished(c) =>
           trace[c] = <<"Run", "Send">> /\ hist[c].sent = ShaderTypeNotSupported
      /\ Returned(c) =>
           caller[c].pc = "err" /\ caller[c].result = ShaderTypeNotSupported

\* C6 witness: such a call has returned, on a context on which a creation
\* path is usable.
C6_Witness ==
  \E c \in Call :
    /\ GeometryOnEs(c) /\ caller[c].pc = "err"
    /\ CoreUsable(ctxt[caller[c].ctx])

C8_SuccessfulRoundTrip ==
  \A c \in Call :
    (/\ Started(c)
     /\ CoreUsable(ctxt[caller[c].ctx])
     /\ hist[c].created.v # 0
     /\ hist[c].status = 1) =>
      /\ hist[c].created.tag = "Id"
      /\ hist[c].sent \in {NoOutcome, Ok(hist[c].created)}
      /\ Returned(c) =>
           /\ caller[c].pc \in {"live", "dropped"}
           /\ caller[c].result = Ok(hist[c].created)
           /\ caller[c].pc = "live" =>
                /\ get_id(shader[c]) = HandleId(hist[c].created.v)
                /\ get_id(shader[c]).v # 0

\* C8 witness: build_shader has returned a Shader on a context of version
\* (3,3).
C8_Witness ==
  \E c \in Call :
    /\ caller[c].pc = "live"
    /\ ctxt[caller[c].ctx].version = <<3, 3>>
    /\ shader[c].id.tag = "Id" /\ shader[c].id.v # 0

\* C9: when the create call returned the null sentinel of its path, the
\* closure makes no further native call and never takes the compile lock,
\* the outcome it sends is Err(ShaderTypeNotSupported), and that is what the
\* caller returns.
C9_NullSentinelRejected ==
  \A c \in Call :
    (hist[c].created # NoHandle /\ hist[c].created.v = 0) =>
      /\ Kinds(trace[c]) = <<"Run", "Create", "Send">>
      /\ hist[c].sent = ShaderTypeNotSupported
      /\ \A x \in Ctx : thread[x].call # c
      /\ Returned(c) =>
           caller[c].pc = "err" /\ caller[c].result = ShaderTypeNotSupported

\* C9 witness: the LegacyExtension create call returned its null sentinel
\* and the caller has returned.
C9_Witness ==
  \E c \in Call :
    /\ hist[c].created = HandleHandle(0)
    /\ caller[c].pc = "err"

\* C10: as long as a Shader lives, get_id returns the Handle its creation
\* closure sent, which is the Handle the create call produced, whatever the
\* other calls have done in the meantime.
C10_HandleNeverChanges ==
  \A c \in Call :
    caller[c].pc = "live" =>
      /\ hist[c].sent.ok
      /\ get_id(shader[c]) = hist[c].sent.id
      /\ get_id(shader[c]) = hist[c].created

\* C10 witness: a Shader holding a LegacyExtension Handle is alive after
\* another Shader was created and dropped and its deletion executed.
C10_Witness ==
  \E c, d \in Call :
    /\ c # d
    /\ caller[c].pc = "live" /\ shader[c].id.tag = "Handle"
    /\ caller[d].pc = "dropped"
    /\ \E x \in Ctx : deleted[x] # << >>


\* the build closure of call c was submitted and the owning thread has not
\* run it
NeverRun(c) == Started(c) /\ trace[c] = << >>

\* C11 as stated: a caller whose build closure the owning thread never runs
\* stays blocked in build_shader: it neither returns nor fails.
C11_BlockedForever_AsStated ==
  \A c \in Call : NeverRun(c) => caller[c].pc = "recv"

\* C11 amended: a caller whose build closure the owning thread never runs
\* never returns; it stays blocked for as long as the closure, and tx with
\* it, is kept; once the closure is discarded tx is dropped, rx.recv() is Err
\* and the call panics at unwrap().
C11_BlockedUntilDiscarded ==
  \A c \in Call :
    NeverRun(c) =>
      /\ caller[c].pc \in {"recv", "panicked"}
      /\ chan[c].sends = 0
      /\ chan[c].tx => /\ caller[c].pc = "recv"
                       /\ ~ENABLED RxRecv(c)
                       /\ ~ENABLED RxRecvDisconnected(c)
      /\ (~chan[c].tx /\ caller[c].pc = "recv") => ENABLED RxRecvDisconnected(c)

\* C11 witness: a closure was discarded unrun from the queue of a dead owning
\* thread and its caller has panicked.
C11_Witness ==
  \E c \in Call :
    /\ NeverRun(c) /\ caller[c].pc = "panicked"
    /\ At(caller[c].ctx, "dead")

\* the owning thread of context x holds the compile lock
HoldsLock(x) == COMPILER_GLOBAL_LOCK = x
\* event i of the event sequence k happened between a "Lock" and the
\* "Unlock" that follows it
LockHeldAt(k, i) ==
  \E j \in 1..(i - 1) :
    k[j] = "Lock" /\ \A m \in (j + 1)..(i - 1) : k[m] # "Unlock"

\* C12: an owning thread holds COMPILER_GLOBAL_LOCK exactly from the
\* acquisition before its compile call to the release right after it: never
\* when it is idle, dead, before the lock request or at the status query;
\* and in every creation the lock is taken after create and source upload,
\* the compile call is the only native call made under it, and the status
\* query, log-length query, log retrieval and send happen with it released.
C12_CompileLockSpan ==
  /\ \A x \in Ctx :
       HoldsLock(x) <=> thread[x].pc \in {"compile", "compiling", "unlock"}
  /\ \A c \in Call :
       LET k == Kinds(trace[c])
       IN  \A i \in DOMAIN k :
             /\ k[i] = "Lock" =>
                  /\ ~LockHeldAt(k, i)
                  /\ \E j \in 1..(i - 1) : k[j] = "Create"
                  /\ \E j \in 1..(i - 1) : k[j] = "Source"
             /\ k[i] = "Compile" => LockHeldAt(k, i) /\ k[i - 1] = "Lock"
             /\ k[i] = "Unlock" => LockHeldAt(k, i) /\ k[i - 1] = "Compile"
             /\ k[i] \in {"Run", "Create", "Source", "Status", "LogLen",
                          "Log", "Send"} => ~LockHeldAt(k, i)
             /\ k[i] = "Status" => k[i - 1] = "Unlock"

\* C12 witness: one creation whose compilation failed is about to query the
\* status and fetch the log while another owning thread holds the lock.
C12_Witness ==
  \E x, y \in Ctx :
    /\ x # y /\ At(x, "status") /\ hist[thread[x].call].status = 0
    /\ HoldsLock(y) /\ At(y, "compiling")

\* the capability path a trace event's native function belongs to
PathOf(e) ==
  IF \E k \in NativeCalls : e = CoreCall[k] THEN "Core"
  ELSE IF \E k \in NativeCalls : e = ArbCall[k] THEN "LegacyExtension"
  ELSE "none"
\* the capability paths whose functions a closure called
PathsUsed(t) == {PathOf(t[i]) : i \in DOMAIN t} \ {"none"}

\* C13: every native call of a creation is a Core function when the
\* context's version is >= (2,0), whether or not gl_arb_shader_objects is
\* set, and an ARB function when the version is lower and the flag is set:
\* one path for the create call and all later calls.  The capability
\* assertion of the running closure's Handle holds at every step, and a
\* closure that ended without sending ended at unreachable!() or at the
\* UTF-8 decoding of the log, never at an assertion.
C13_PathPriorityAndConsistency ==
  /\ \A c \in Call :
       LET cx   == ctxt[caller[c].ctx]
           used == PathsUsed(trace[c])
       IN  used # {} =>
             /\ CoreUsable(cx) => used = {"Core"}
             /\ (~CoreUsable(cx) /\ LegacyUsable(cx)) =>
                  used = {"LegacyExtension"}
             /\ Cardinality(used) = 1
  /\ \A x \in Ctx :
       thread[x].call # 0 => CapabilityAssert(ctxt[x], thread[x].id)
  /\ \A c \in Call :
       (Finished(c) /\ chan[c].sends = 0) =>
         LET k == Kinds(trace[c])
         IN  k = <<"Run">> \/ k[Len(k)] = "Log"

\* C13 witness: a creation on a context below (2,0) with the extension set
\* has made all six native calls, each through its ARB function.
C13_Witness ==
  \E c \in Call :
    /\ Started(c)
    /\ ~CoreUsable(ctxt[caller[c].ctx])
    /\ {ArbCall[k] : k \in NativeCalls} \subseteq Events(trace[c])

\* call c was made against a context with no usable capability path, for a
\* stage the context does not reject up front
NoUsablePath(c) ==
  /\ Started(c)
  /\ ~StageUnsupported(caller[c].shader_type, ctxt[caller[c].ctx])
  /\ ~CoreUsable(ctxt[caller[c].ctx])
  /\ ~LegacyUsable(ctxt[caller[c].ctx])

\* C14: a creation on a context with version < (2,0) and without
\* gl_arb_shader_objects (and not geometry-on-ES) makes no native call,
\* creates no object and sends nothing; once its closure has run the owning
\* thread is gone and tx is dropped; the caller never gets a Shader or a
\* ProgramCreationError back: while it waits nothing can be received, and
\* the only way out of recv() is the panic at unwrap().
C14_NoUsablePathIsFatal ==
  \A c \in Call :
    NoUsablePath(c) =>
      /\ trace[c] \in {<< >>, <<"Run">>}
      /\ hist[c].created = NoHandle
      /\ drv[caller[c].ctx] = {}
      /\ chan[c].sends = 0 /\ chan[c].buf = << >>
      /\ hist[c].sent = NoOutcome
      /\ caller[c].pc \in {"recv", "panicked"}
      /\ caller[c].result = NoOutcome /\ shader[c] = NoShader
      /\ ~ENABLED RxRecv(c)
      /\ trace[c] = <<"Run">> =>
           /\ At(caller[c].ctx, "dead")
           /\ ~chan[c].tx
           /\ caller[c].pc = "recv" => ENABLED RxRecvDisconnected(c)

\* C14 witness: the closure of such a creation has run and aborted, and its
\* caller has panicked in build_shader.
C14_Witness ==
  \E c \in Call :
    NoUsablePath(c) /\ trace[c] = <<"Run">> /\ caller[c].pc = "panicked"

IsPrefix(p, t) == Len(p) <= Len(t) /\ \A i \in DOMAIN p : p[i] = t[i]
\* the native calls and the send of a closure, in the order it made them
CallsAndSend(c) ==
  SelectSeq(Kinds(trace[c]), LAMBDA e : e \in NativeCalls \cup {"Send"})

\* C15: the native calls and the send of a creation are, in order, a
\* beginning of create, source upload, compile, status query, send when the
\* recorded status is not false, and of create, source upload, compile,
\* status query, log-length query, log retrieval, send when it is false; the
\* only shorter complete runs are the two early error returns (send alone,
\* create then send).  The log queries are made only for status false, and
\* a send is the closure's last event: the owning thread is no longer
\* running it.
C15_StepOrder ==
  \A c \in Call :
    LET k == CallsAndSend(c)
        onSuccess == <<"Create", "Source", "Compile", "Status", "Send">>
        onFailure == <<"Create", "Source", "Compile", "Status", "LogLen",
                       "Log", "Send">>
    IN  /\ \/ k \in {<<"Send">>, <<"Create", "Send">>}
           \/ hist[c].status # 0 /\ IsPrefix(k, onSuccess)
           \/ hist[c].status = 0 /\ IsPrefix(k, onFailure)
        /\ ({"LogLen", "Log"} \cap Events(k) # {}) => hist[c].status = 0
        /\ "Send" \in Events(k) =>
             /\ trace[c][Len(trace[c])] = "Send"
             /\ \A x \in Ctx : thread[x].call # c

\* C15 witness: two creations have run to their send, one that compiled and
\* made no log query and one that failed and made both.
C15_Witness ==
  \E c, d \in Call :
    /\ CallsAndSend(c) = <<"Create", "Source", "Compile", "Status", "Send">>
    /\ CallsAndSend(d) = <<"Create", "Source", "Compile", "Status", "LogLen",
                           "Log", "Send">>

\* call c was made against a context with at least one capability path
PathUsable(c) ==
  Started(c) /\ (CoreUsable(ctxt[caller[c].ctx]) \/ LegacyUsable(ctxt[caller[c].ctx]))
\* a closure run on context x panicked decoding a log that is not UTF-8
BadLogOn(x) ==
  \E d \in Call :
    caller[d].ctx = x /\ hist[d].status = 0 /\ ~ValidUtf8(hist[d].log)
\* the calls whose deletion closure has left the queue of context x
DropsTaken(x) ==
  {d \in Call : /\ caller[d].pc = "dropped" /\ caller[d].ctx = x
                /\ QueuedDrops(d, x) = {}}
\* the deletion closure of call c has made its delete call
DeleteExecuted(c) ==
  LET x == caller[c].ctx
  IN  /\ c \in DropsTaken(x)
      /\ Len(deleted[x]) = Cardinality(DropsTaken(x))
      /\ \E i \in DOMAIN deleted[x] : deleted[x][i] = hist[c].sent.id

\* C16 as stated: under weak fairness of the owning threads, every creation
\* submitted to a context with a capability path has its outcome sent and
\* its caller returns, and every submitted deletion makes its delete call.
C16_Progress_AsStated ==
  /\ \A c \in Call : PathUsable(c) ~> (chan[c].sends = 1 /\ Returned(c))
  /\ \A c \in Call : (caller[c].pc = "dropped") ~> DeleteExecuted(c)

\* C16 amended: under weak fairness of the owning threads, every creation
\* submitted to a context with a capability path has its outcome sent and
\* its caller returns, and every submitted deletion makes its delete call,
\* unless a closure run on that context panics on a compile log that is not
\* valid UTF-8.
C16_ProgressUnlessBadLog ==
  /\ \A c \in Call :
       PathUsable(c) ~>
         ((chan[c].sends = 1 /\ Returned(c)) \/ BadLogOn(caller[c].ctx))
  /\ \A c \in Call :
       (caller[c].pc = "dropped") ~>
         (DeleteExecuted(c) \/ BadLogOn(caller[c].ctx))

\* C16 witness: two creations were submitted to the same context, both have
\* returned, and the deletion of a dropped Shader has been executed.
C16_Witness ==
  \E c, d \in Call :
    /\ c # d /\ caller[c].ctx = caller[d].ctx
    /\ Returned(c) /\ Returned(d)
    /\ caller[c].pc = "dropped" /\ DeleteExecuted(c)

\* the native object h of context x is accounted for: a live Shader owns it,
\* or its creation is still running, or its Ok outcome is on the way to the
\* caller, or its deletion closure is queued
AccountedFor(x, h) ==
  \/ \E c \in Call :
       caller[c].pc = "live" /\ shader[c].display = x /\ shader[c].id = h
  \/ thread[x].call # 0 /\ thread[x].id = h
  \/ \E c \in Call : caller[c].ctx = x /\ chan[c].buf = <<Ok(h)>>
  \/ \E i \in DOMAIN queue[x] :
       queue[x][i].kind = "drop" /\ queue[x][i].id = h

\* C17 as stated: every native object a creation allocated and the driver
\* has not deleted is owned by a live Shader or is on its way to one or to
\* its deletion; so with nothing running, nothing queued and no Shader
\* alive, no native object is left, whatever the creations' outcomes were.
\* Contexts whose owning thread has panicked are left aside: nothing can be
\* deleted there any more.
C17_NoLeak_AsStated ==
  \A x \in Ctx :
    ~At(x, "dead") => \A h \in drv[x] : AccountedFor(x, h)

\* how many delete calls context x has executed for handle h
DeleteCalls(x, h) ==
  Cardinality({i \in DOMAIN deleted[x] : deleted[x][i] = h})
\* the creations on context x that allocated h, compiled it, sent it as Ok
\* and are over, and whose Shader was dropped and its deletion closure taken
\* off the queue
DeletedCreations(x, h) ==
  {c \in DropsTaken(x) :
     /\ hist[c].created = h /\ hist[c].status = 1 /\ hist[c].sent = Ok(h)
     /\ Finished(c) /\ thread[x].call # c}

\* C18: every delete call executed on a context was for a non-null handle
\* that a finished creation on that context had allocated, compiled
\* successfully and sent as Ok, and whose Shader has been dropped; and a
\* handle has had no more delete calls than there were such creations, one
\* per native object (a name may be handed out again after its deletion).
C18_DeletionSafety ==
  \A x \in Ctx : \A i \in DOMAIN deleted[x] :
    LET h == deleted[x][i]
    IN  /\ ~IsNull(h) /\ h # NoHandle
        /\ DeletedCreations(x, h) # {}
        /\ DeleteCalls(x, h) <= Cardinality(DeletedCreations(x, h))
        /\ \A c \in Call :
             (caller[c].ctx = x /\ hist[c].created = h /\ hist[c].status = 0)
               => h \in drv[x]

\* C18 witness: the driver handed the same name out twice on one context,
\* to two successful creations one after the other, and each object has
\* been deleted.
C18_Witness ==
  \E x \in Ctx : \E h \in {HandleId(1), HandleHandle(1)} :
    /\ deleted[x] = <<h, h>>
    /\ Cardinality(DeletedCreations(x, h)) = 2

\* C19: every live Shader holding Handle::Id belongs to a context with
\* version >= (2,0), and every live Shader holding Handle::Handle to a
\* context with gl_arb_shader_objects set and version < (2,0); every queued
\* deletion closure carries a Handle whose capability assertion holds on its
\* context, and an owning thread is dead only because a creation closure it
\* ran aborted, never because a deletion's assertion failed.
C19_HandleCapabilityConsistency ==
  /\ \A c \in Call :
       caller[c].pc = "live" =>
         LET cx == ctxt[shader[c].display]
         IN  /\ shader[c].id.tag \in {"Id", "Handle"}
             /\ shader[c].id.tag = "Id" => CoreUsable(cx)
             /\ shader[c].id.tag = "Handle" =>
                  (LegacyUsable(cx) /\ ~CoreUsable(cx))
  /\ \A x \in Ctx : \A i \in DOMAIN queue[x] :
       queue[x][i].kind = "drop" =>
         CapabilityAssert(ctxt[x], queue[x][i].id)
  /\ \A x \in Ctx :
       At(x, "dead") =>
         \E c \in Call :
           caller[c].ctx = x /\ Aborts(c) /\ trace[c] # << >> /\ ~chan[c].tx
                             /\ chan[c].sends = 0

\* C19 witness: a Shader holding Handle::Handle is alive on a context below
\* (2,0) while the deletion closure of another Shader of that context waits
\* in the queue.
C19_Witness ==
  \E c, d \in Call :
    /\ caller[c].pc = "live" /\ shader[c].id.tag = "Handle"
    /\ QueuedDrops(d, shader[c].display) # {}

\* the outcome of call c as its own stage, its own context, the name its own
\* create call returned and the status and log of its own compilation
\* determine it
OwnOutcome(c) ==
  IF StageUnsupported(caller[c].shader_type, ctxt[caller[c].ctx])
  THEN ShaderTypeNotSupported
  ELSE IF IsNull(hist[c].created) THEN ShaderTypeNotSupported
  ELSE IF hist[c].status = 0 THEN CompilationError(hist[c].log)
  ELSE Ok(hist[c].created)

\* the channel of call c carries nothing but the outcome of c's own closure,
\* and a caller that returns holds that outcome, its Shader being of its own
\* context with the Handle its own create call produced
OwnChannel(c) ==
  /\ chan[c].buf # << >> => Started(c) /\ chan[c].buf = <<OwnOutcome(c)>>
  /\ Returned(c) => caller[c].result = OwnOutcome(c)
  /\ caller[c].pc = "live" =>
       shader[c] = [display |-> caller[c].ctx, id |-> hist[c].created]

====
